---- MODULE Spec2Model ----
(***************************************************************************)
(* Report rendering and writing of aggregator.py.                          *)
(*                                                                         *)
(* Python values are tagged records.  A Python str is a sequence of        *)
(* fragments: a fragment is a whitespace character, the Markdown bold      *)
(* delimiter "**", or a run of other text that neither starts nor ends     *)
(* with whitespace.  A dict is a record whose absent keys hold Absent.     *)
(* What a renderer writes is a sequence of pieces, one per f.write call    *)
(* (Markdown) or per adoc_lines element (AsciiDoc); a piece records the    *)
(* f-string template that produced it and the values formatted into it.    *)
(***************************************************************************)
EXTENDS Integers, Sequences, FiniteSets, TLC

VARIABLES
    \* --- renderer harness (RenderSpec) ---
    report_data,        \* the document handed to both renderers
    rpc,                \* position: "md" | "scan" | "adoc" | "join" | "done"
    idx,                \* index of the section the running loop handles next
    md_file,            \* pieces written so far by _write_markdown_report
    md_raised,          \* _write_markdown_report raised
    first_h1_title,     \* _write_asciidoc_report local
    first_h1_skipped,   \* _write_asciidoc_report local
    adoc_lines,         \* _write_asciidoc_report local
    adoc_file,          \* what _write_asciidoc_report wrote (NoFile: nothing)
    adoc_raised,        \* _write_asciidoc_report raised
    \* --- report builder (BuildSpec) ---
    bargs,              \* the arguments of one aggregate_results call
    bdocs,              \* the two documents built from them (NoDocs before)
    \* --- aggregate_results against a file system (Spec) ---
    fs,                 \* path -> file content, NoFile where no file exists
    dirs,               \* the directories that exist
    pc,                 \* "idle" | "mkdir" | "open" | "write" | "returned" | "raised"
    step,               \* which of the four report files is being written
    args,               \* the arguments of the running / last call
    handles,            \* paths of the files currently open
    retval,             \* the value the running / last call returned (<<>>: none)
    calls,              \* number of calls started
    printed             \* the report paths the caller printed, one per completed call

rvars == <<report_data, rpc, idx, md_file, md_raised, first_h1_title,
           first_h1_skipped, adoc_lines, adoc_file, adoc_raised>>
bvars == <<bargs, bdocs>>
avars == <<fs, dirs, pc, step, args, handles, retval, calls, printed>>
vars == <<rvars, bvars, avars>>

---------------------------------------------------------------------------
(* Python values *)

Absent == [tag |-> "absent"]
PyNone == [tag |-> "none"]
PyStr(s) == [tag |-> "str", s |-> s]
PyInt(n) == [tag |-> "int", n |-> n]
PyList(l) == [tag |-> "list", l |-> l]
PyDict(d) == [tag |-> "dict", d |-> d]
\* a dict keyed by data (grouped_web_results): its (key, value) pairs in insertion order
PyMap(pairs) == [tag |-> "map", pairs |-> pairs]

\* d.get(key, default) on a dict held as a record
Get(d, key, default) == IF d[key] = Absent THEN default ELSE d[key]

\* bool(v)
Truthy(v) ==
    CASE v.tag = "str" -> Len(v.s) > 0
      [] v.tag = "int" -> v.n # 0
      [] v.tag = "list" -> Len(v.l) > 0
      [] v.tag = "dict" -> \E k \in DOMAIN v.d : v.d[k] # Absent
      [] v.tag = "map" -> Len(v.pairs) > 0
      [] OTHER -> FALSE

\* f"{v}": a str formats as itself, any other value as its repr text
Format(v) == IF v.tag = "str" THEN v ELSE [tag |-> "repr", of |-> v]

Whitespace == {" ", "\n", "\t"}

RECURSIVE LStrip(_)
LStrip(s) ==
    IF s # <<>> /\ Head(s) \in Whitespace THEN LStrip(Tail(s)) ELSE s

RECURSIVE RStrip(_)
RStrip(s) ==
    IF s # <<>> /\ s[Len(s)] \in Whitespace
    THEN RStrip(SubSeq(s, 1, Len(s) - 1)) ELSE s

\* str.strip()
Strip(s) == RStrip(LStrip(s))

\* str.replace('**', '*')
ReplaceBold(s) == [i \in 1..Len(s) |-> IF s[i] = "**" THEN "*" ELSE s[i]]

RECURSIVE Flatten(_)
Flatten(ss) == IF ss = <<>> THEN <<>> ELSE Head(ss) \o Flatten(Tail(ss))

---------------------------------------------------------------------------
(* The arguments of aggregate_results, and the values of a harness at rest *)

Config(base) == [results_base_dir |-> base]

CallArgs(q, web, local, answer, config, grouped, previous, followup) ==
    [query_id |-> q, enhanced_query |-> PyStr(<<"eq">>), web_results |-> web,
     local_results |-> local, final_answer |-> answer, config |-> config,
     grouped_web_results |-> grouped, previous_results |-> previous,
     follow_up_conversation |-> followup]

\* args / bargs while no call has been made
NoArgs == <<>>
NoDocs == [built |-> FALSE, final |-> <<>>, full |-> <<>>]

NoFile == [exists |-> FALSE, text |-> <<>>]
File(text) == [exists |-> TRUE, text |-> text]

---------------------------------------------------------------------------
(* _write_markdown_report *)

\* f"{'#' * level} {title}\n\n"
MdHeading(level, title) ==
    [k |-> "heading", marks |-> IF level > 0 THEN level ELSE 0, title |-> title]
\* f"- {item}\n"
MdBullet(item) == [k |-> "bullet", item |-> Format(item)]
\* "\n"
MdNewline == [k |-> "newline"]
\* f"- **{prefix}:** {value}\n" (indent 0), f"  - **{prefix}:** {value}\n" (indent 2)
MdEntry(indent, prefix, value) ==
    [k |-> "entry", indent |-> indent, label |-> Format(prefix), value |-> Format(value)]
\* f"{content.strip()}\n\n"
MdText(s) == [k |-> "text", s |-> Strip(s)]
\* "_No content for this section._\n\n"
MdNoContent == [k |-> "nocontent"]

MdItem(content, item) ==
    <<MdEntry(0, Get(content, "item_prefix", PyStr(<<"URL">>)),
              Get(item, "primary", PyStr(<<>>)))>>
    \o (IF Truthy(Get(item, "secondary", PyNone))
        THEN <<MdEntry(2, Get(content, "secondary_prefix", PyStr(<<"Snippet">>)),
                       Get(item, "secondary", PyStr(<<>>)))>>
        ELSE <<>>)
    \o (IF Truthy(Get(item, "tertiary", PyNone))
        THEN <<MdEntry(2, Get(content, "tertiary_prefix", PyStr(<<"Tertiary">>)),
                       Get(item, "tertiary", PyStr(<<>>)))>>
        ELSE <<>>)
    \o <<MdNewline>>

\* the heading a section writes first, if its title is truthy
MdHead(section) ==
    IF Truthy(Get(section, "title", PyStr(<<>>)))
    THEN <<MdHeading(Get(section, "level", PyInt(1)).n, Get(section, "title", PyStr(<<>>)))>>
    ELSE <<>>

\* what the branch on content writes after the heading, and whether it raises
MdBody(section) ==
    LET title == Get(section, "title", PyStr(<<>>))
        content == Get(section, "content", PyStr(<<>>))
    IN  CASE content.tag = "list" ->
               [w |-> [i \in 1..Len(content.l) |-> MdBullet(content.l[i])] \o <<MdNewline>>,
                exc |-> FALSE]
          [] content.tag = "dict" ->
               LET items == Get(content.d, "items", PyList(<<>>)).l
               IN  [w |-> Flatten([i \in 1..Len(items) |-> MdItem(content.d, items[i].d)]),
                    exc |-> FALSE]
          [] content.tag \notin {"list", "dict"} /\ Truthy(content) ->
               IF content.tag = "str"
               THEN [w |-> <<MdText(content.s)>>, exc |-> FALSE]
               ELSE [w |-> <<>>, exc |-> TRUE]      \* AttributeError: no .strip()
          [] OTHER ->
               [w |-> IF Truthy(title) THEN <<MdNoContent>> ELSE <<>>, exc |-> FALSE]

\* one iteration of the loop over report_data
MdSection(section) ==
    [w |-> MdHead(section) \o MdBody(section).w, exc |-> MdBody(section).exc]

\* the whole loop: what reached the file, and whether the call raised
RECURSIVE MdRender(_)
MdRender(doc) ==
    IF doc = <<>> THEN [w |-> <<>>, exc |-> FALSE]
    ELSE LET r == MdSection(Head(doc))
         IN  IF r.exc THEN r
             ELSE LET rest == MdRender(Tail(doc))
                  IN  [w |-> r.w \o rest.w, exc |-> rest.exc]

---------------------------------------------------------------------------
(* _write_asciidoc_report *)

\* f"{'=' * n} {title}\n": n = 1 is the document title line, level + 1 a body heading
AdocHeading(n, title) ==
    [k |-> "heading", marks |-> IF n > 0 THEN n ELSE 0, title |-> title]
\* f"* {item}"
AdocBullet(item) == [k |-> "bullet", item |-> Format(item)]
\* ""
AdocBlank == [k |-> "blank"]
\* f"{prefix}:: {value}", f"{prefix}::: {value}", f"{prefix}:::: {value}"
AdocLabel(colons, prefix, value) ==
    [k |-> "label", colons |-> colons, label |-> Format(prefix), value |-> Format(value)]
\* f"{content_adoc}\n" with content_adoc = content.strip().replace('**', '*')
AdocText(s) == [k |-> "text", s |-> ReplaceBold(Strip(s))]
\* "_No content for this section._\n"
AdocNoContent == [k |-> "nocontent"]

\* next((s['title'] for s in report_data if s.get('level') == 1), None);
\* exc: s['title'] on a section without the key (KeyError)
RECURSIVE FirstH1Title(_)
FirstH1Title(doc) ==
    IF doc = <<>> THEN [v |-> PyNone, exc |-> FALSE]
    ELSE IF Head(doc)["level"] = PyInt(1)
         THEN [v |-> Head(doc)["title"], exc |-> Head(doc)["title"] = Absent]
         ELSE FirstH1Title(Tail(doc))

\* the lines appended before the loop
AdocTitleLine(h1) == IF Truthy(h1) THEN <<AdocHeading(1, h1)>> ELSE <<>>

AdocItem(content, item) ==
    <<AdocLabel(2, Get(content, "item_prefix", PyStr(<<"URL">>)),
                Get(item, "primary", PyStr(<<>>)))>>
    \o (IF Truthy(Get(item, "secondary", PyStr(<<>>)))
        THEN <<AdocLabel(3, Get(content, "secondary_prefix", PyStr(<<"Snippet">>)),
                         Get(item, "secondary", PyStr(<<>>)))>>
        ELSE <<>>)
    \o (IF Truthy(Get(item, "tertiary", PyStr(<<>>)))
        THEN <<AdocLabel(4, Get(content, "tertiary_prefix", PyStr(<<"Tertiary">>)),
                         Get(item, "tertiary", PyStr(<<>>)))>>
        ELSE <<>>)
    \o <<AdocBlank>>

\* level == 1 and title == first_h1_title and not first_h1_skipped
AdocElides(section, h1, skipped) ==
    /\ Get(section, "level", PyInt(1)) = PyInt(1)
    /\ Get(section, "title", PyStr(<<>>)) = h1
    /\ ~skipped

\* AdocHead with the body heading at the depth of the Markdown heading
AdocHeadSameDepth(section, h1, skipped) ==
    LET level == Get(section, "level", PyInt(1)).n
        title == Get(section, "title", PyStr(<<>>))
    IN  IF AdocElides(section, h1, skipped) THEN <<>>
        ELSE IF Truthy(title) THEN <<AdocHeading(level, title)>>
        ELSE <<>>

\* the heading branch of one iteration: the lines appended
AdocHead(section, h1, skipped) ==
    LET level == Get(section, "level", PyInt(1)).n
        title == Get(section, "title", PyStr(<<>>))
    IN  IF AdocElides(section, h1, skipped) THEN <<>>
        ELSE IF Truthy(title) THEN <<AdocHeading(level + 1, title)>>
        ELSE <<>>

\* the placeholder condition of the last branch, read after the heading branch
\* has updated first_h1_skipped:
\* title and not (level == 1 and title == first_h1_title and first_h1_skipped)
AdocPlaceholder(section, h1, skippedNow) ==
    LET title == Get(section, "title", PyStr(<<>>))
    IN  /\ Truthy(title)
        /\ ~(/\ Get(section, "level", PyInt(1)) = PyInt(1)
             /\ title = h1
             /\ skippedNow)

\* the branch on content of one iteration
AdocBody(section, h1, skippedNow) ==
    LET content == Get(section, "content", PyStr(<<>>))
    IN  CASE content.tag = "list" ->
               [w |-> [i \in 1..Len(content.l) |-> AdocBullet(content.l[i])] \o <<AdocBlank>>,
                exc |-> FALSE]
          [] content.tag = "dict" ->
               LET items == Get(content.d, "items", PyList(<<>>))
               IN  [w |-> IF Truthy(items)
                          THEN Flatten([i \in 1..Len(items.l) |->
                                           AdocItem(content.d, items.l[i].d)])
                          ELSE <<>>,     \* the elif isinstance(content, str) is dead here
                    exc |-> FALSE]
          [] content.tag \notin {"list", "dict"} /\ Truthy(content) ->
               IF content.tag = "str"
               THEN [w |-> <<AdocText(content.s)>>, exc |-> FALSE]
               ELSE [w |-> <<>>, exc |-> TRUE]      \* AttributeError: no .strip()
          [] OTHER ->
               [w |-> IF AdocPlaceholder(section, h1, skippedNow)
                      THEN <<AdocNoContent>> ELSE <<>>,
                exc |-> FALSE]

\* one iteration of the loop: lines appended, the flag afterwards, raised or not
AdocSection(section, h1, skipped) ==
    LET now == skipped \/ AdocElides(section, h1, skipped)
        body == AdocBody(section, h1, now)
    IN  [w |-> AdocHead(section, h1, skipped) \o body.w, skipped |-> now, exc |-> body.exc]

RECURSIVE AdocLoop(_, _, _)
AdocLoop(doc, h1, skipped) ==
    IF doc = <<>> THEN [w |-> <<>>, exc |-> FALSE]
    ELSE LET r == AdocSection(Head(doc), h1, skipped)
         IN  IF r.exc THEN [w |-> r.w, exc |-> TRUE]
             ELSE LET rest == AdocLoop(Tail(doc), h1, r.skipped)
                  IN  [w |-> r.w \o rest.w, exc |-> rest.exc]

\* "\n".join(adoc_lines): the lines with a separator between neighbours
AdocSep == [k |-> "sep"]
JoinLines(lines) ==
    [i \in 1..(IF Len(lines) = 0 THEN 0 ELSE 2 * Len(lines) - 1) |->
        IF i % 2 = 1 THEN lines[(i + 1) \div 2] ELSE AdocSep]

\* the whole function up to the open(): the text to write, or raised
AdocRender(doc) ==
    LET h1 == FirstH1Title(doc)
    IN  IF h1.exc THEN [w |-> <<>>, exc |-> TRUE]
        ELSE LET r == AdocLoop(doc, h1.v, FALSE)
             IN  [w |-> JoinLines(AdocTitleLine(h1.v) \o r.w), exc |-> r.exc]

---------------------------------------------------------------------------
(* The renderers run on arbitrary documents: first _write_markdown_report,  *)
(* then _write_asciidoc_report, one loop iteration per step.               *)

MaxSections == 2

\* a section dict; every section the program builds has a level and a title
Section(level, title, content) ==
    [level |-> PyInt(level), title |-> PyStr(title), content |-> content]

Levels == {1, 2}
Titles == {<<>>, <<"T">>, <<"U">>}

SampleText == <<" ", "**", "b", "**", "\n">>
SampleItem == [primary |-> PyStr(<<"u">>), secondary |-> PyStr(<<"s">>), tertiary |-> Absent]
SampleItems ==
    PyDict([items |-> PyList(<<PyDict(SampleItem)>>), item_prefix |-> PyStr(<<"URL">>),
            secondary_prefix |-> PyStr(<<"Snippet">>), tertiary_prefix |-> Absent])
SampleSubSection == PyDict(Section(3, <<"Domain: ", "d">>, SampleItems))

Contents ==
    { Absent, PyNone,                                   \* Empty
      PyStr(SampleText),                                \* Text
      PyList(<<PyStr(<<"x">>), PyStr(<<"y">>)>>),       \* ItemList
      SampleItems,                                      \* StructuredItems
      PyList(<<SampleSubSection>>),                     \* Nested
      PyInt(5), PyInt(0) }                              \* neither str, list nor dict

Sections == {Section(l, t, c) : l \in Levels, t \in Titles, c \in Contents}
Documents == UNION {[1..n -> Sections] : n \in 0..MaxSections}

RenderInit ==
    /\ report_data \in Documents
    /\ rpc = "md"
    /\ idx = 1
    /\ md_file = <<>>
    /\ md_raised = FALSE
    /\ first_h1_title = PyNone
    /\ first_h1_skipped = FALSE
    /\ adoc_lines = <<>>
    /\ adoc_file = NoFile
    /\ adoc_raised = FALSE
    \* the builder and the writer are not running
    /\ bargs = NoArgs /\ bdocs = NoDocs
    /\ fs = <<>> /\ dirs = {} /\ pc = "idle" /\ step = 0 /\ args = NoArgs
    /\ handles = {} /\ retval = <<>> /\ calls = 0 /\ printed = <<>>

\* one iteration of the Markdown loop; an exception leaves the with block
MdIter ==
    /\ rpc = "md" /\ idx <= Len(report_data)
    /\ LET r == MdSection(report_data[idx])
       IN  /\ md_file' = md_file \o r.w
           /\ md_raised' = r.exc
           /\ rpc' = IF r.exc THEN "scan" ELSE "md"
           /\ idx' = IF r.exc THEN 1 ELSE idx + 1
    /\ UNCHANGED <<report_data, first_h1_title, first_h1_skipped, adoc_lines,
                   adoc_file, adoc_raised>>
    /\ UNCHANGED <<bvars, avars>>

\* the Markdown loop ends and the file is closed
MdClose ==
    /\ rpc = "md" /\ idx > Len(report_data)
    /\ rpc' = "scan"
    /\ idx' = 1
    /\ UNCHANGED <<report_data, md_file, md_raised, first_h1_title, first_h1_skipped,
                   adoc_lines, adoc_file, adoc_raised>>
    /\ UNCHANGED <<bvars, avars>>

\* adoc_lines = [], first_h1_skipped = False, the scan for the title, the title line
AdocScan ==
    /\ rpc = "scan"
    /\ LET h1 == FirstH1Title(report_data)
       IN  /\ first_h1_title' = IF h1.exc THEN first_h1_title ELSE h1.v
           /\ adoc_lines' = IF h1.exc THEN <<>> ELSE AdocTitleLine(h1.v)
           /\ adoc_raised' = h1.exc
           /\ rpc' = IF h1.exc THEN "done" ELSE "adoc"
    /\ first_h1_skipped' = FALSE
    /\ idx' = 1
    /\ UNCHANGED <<report_data, md_file, md_raised, adoc_file>>
    /\ UNCHANGED <<bvars, avars>>

\* one iteration of the AsciiDoc loop; an exception ends the call before open()
AdocIter ==
    /\ rpc = "adoc" /\ idx <= Len(report_data)
    /\ LET r == AdocSection(report_data[idx], first_h1_title, first_h1_skipped)
       IN  /\ adoc_lines' = adoc_lines \o r.w
           /\ first_h1_skipped' = r.skipped
           /\ adoc_raised' = r.exc
           /\ rpc' = IF r.exc THEN "done" ELSE "adoc"
           /\ idx' = IF r.exc THEN idx ELSE idx + 1
    /\ UNCHANGED <<report_data, md_file, md_raised, first_h1_title, adoc_file>>
    /\ UNCHANGED <<bvars, avars>>

\* with open(file_path, "w") as f: f.write("\n".join(adoc_lines))
AdocWrite ==
    /\ rpc = "adoc" /\ idx > Len(report_data)
    /\ adoc_file' = File(JoinLines(adoc_lines))
    /\ rpc' = "done"
    /\ UNCHANGED <<report_data, idx, md_file, md_raised, first_h1_title,
                   first_h1_skipped, adoc_lines, adoc_raised>>
    /\ UNCHANGED <<bvars, avars>>

RenderNext == MdIter \/ MdClose \/ AdocScan \/ AdocIter \/ AdocWrite

---------------------------------------------------------------------------
(* aggregate_results: the two documents built from the arguments *)

\* final_report_data
FinalReportData(a) ==
    <<[level |-> PyInt(1), title |-> PyStr(<<"Final Aggregated Answer (RAG)">>),
       content |-> a.final_answer]>>

\* the three sections aggregator_report_data starts with; the first has no content key
HeaderSections(a) ==
    <<[level |-> PyInt(1),
       title |-> PyStr(<<"Aggregated Results for Query ID:", " ">> \o a.query_id.s),
       content |-> Absent],
      [level |-> PyInt(2), title |-> PyStr(<<"Enhanced Query">>),
       content |-> a.enhanced_query],
      [level |-> PyInt(1), title |-> PyStr(<<"Final Aggregated Answer (RAG)">>),
       content |-> a.final_answer]>>

WebItem(item) ==
    PyDict([primary |-> Get(item, "url", PyStr(<<>>)),
            secondary |-> Get(item, "snippet", PyStr(<<>>)),
            tertiary |-> Absent])

WebSection(a) ==
    <<[level |-> PyInt(2), title |-> PyStr(<<"Web Search Results">>),
       content |->
         IF Truthy(a.web_results)
         THEN PyDict([items |-> PyList([i \in 1..Len(a.web_results.l) |->
                                          WebItem(a.web_results.l[i].d)]),
                      item_prefix |-> PyStr(<<"URL">>),
                      secondary_prefix |-> PyStr(<<"Snippet">>),
                      tertiary_prefix |-> Absent])
         ELSE PyStr(<<"_No web results found_">>)]>>

GroupedItem(item) ==
    PyDict([primary |-> Get(item, "url", PyStr(<<>>)),
            secondary |-> Get(item, "file_path", PyStr(<<>>)),
            tertiary |-> Get(item, "content_type", PyStr(<<>>))])

\* the level-3 sub-section of one domain
DomainSection(pair) ==
    PyDict([level |-> PyInt(3),
            title |-> PyStr(<<"Domain:", " ">> \o pair.key.s),
            content |-> PyDict([items |-> PyList([i \in 1..Len(pair.value.l) |->
                                                    GroupedItem(pair.value.l[i].d)]),
                                item_prefix |-> PyStr(<<"URL">>),
                                secondary_prefix |-> PyStr(<<"File Path">>),
                                tertiary_prefix |-> PyStr(<<"Content Type">>)])])

GroupedSection(a) ==
    IF Truthy(a.grouped_web_results)
    THEN <<[level |-> PyInt(2), title |-> PyStr(<<"Grouped Web Results by Domain">>),
            content |-> PyList([i \in 1..Len(a.grouped_web_results.pairs) |->
                                  DomainSection(a.grouped_web_results.pairs[i])])]>>
    ELSE <<>>

NoMetadata == [file_path |-> Absent, page |-> Absent, snippet |-> Absent]

\* LocalItem testing the page for truth (if meta.get('page'):) instead of presence
LocalItemIfPageTruthy(doc) ==
    LET meta == Get(doc, "metadata", PyDict(NoMetadata)).d
    IN  IF Truthy(Get(meta, "page", PyNone))
        THEN PyDict([primary |-> Get(meta, "file_path", PyStr(<<>>)),
                     secondary |-> Get(meta, "page", PyNone),
                     tertiary |-> Get(meta, "snippet", PyStr(<<>>))])
        ELSE PyDict([primary |-> Get(meta, "file_path", PyStr(<<>>)),
                     secondary |-> Get(meta, "snippet", PyStr(<<>>)),
                     tertiary |-> Absent])

\* item_data of one local result
LocalItem(doc) ==
    LET meta == Get(doc, "metadata", PyDict(NoMetadata)).d
    IN  IF meta["page"] # Absent
        THEN PyDict([primary |-> Get(meta, "file_path", PyStr(<<>>)),
                     secondary |-> Get(meta, "page", PyNone),
                     tertiary |-> Get(meta, "snippet", PyStr(<<>>))])
        ELSE PyDict([primary |-> Get(meta, "file_path", PyStr(<<>>)),
                     secondary |-> Get(meta, "snippet", PyStr(<<>>)),
                     tertiary |-> Absent])

LocalSection(a) ==
    <<[level |-> PyInt(2), title |-> PyStr(<<"Local Retrieval Results">>),
       content |->
         IF Truthy(a.local_results)
         THEN PyDict([items |-> PyList([i \in 1..Len(a.local_results.l) |->
                                          LocalItem(a.local_results.l[i].d)]),
                      item_prefix |-> PyStr(<<"File">>),
                      secondary_prefix |-> PyStr(<<"Page">>),
                      tertiary_prefix |-> PyStr(<<"Snippet">>)])
         ELSE PyStr(<<"_No local results found_">>)]>>

\* PreviousSection testing "is not None" instead of truth
PreviousSectionIfNotNone(a) ==
    IF a.previous_results # PyNone
    THEN <<[level |-> PyInt(2), title |-> PyStr(<<"Previous Results Integrated">>),
            content |-> a.previous_results]>>
    ELSE <<>>

\* if previous_results: ...
PreviousSection(a) ==
    IF Truthy(a.previous_results)
    THEN <<[level |-> PyInt(2), title |-> PyStr(<<"Previous Results Integrated">>),
            content |-> a.previous_results]>>
    ELSE <<>>

\* if follow_up_conversation: ...
FollowUpSection(a) ==
    IF Truthy(a.follow_up_conversation)
    THEN <<[level |-> PyInt(2), title |-> PyStr(<<"Follow-Up Conversation">>),
            content |-> a.follow_up_conversation]>>
    ELSE <<>>

\* aggregator_report_data
AggregatorReportData(a) ==
    HeaderSections(a) \o WebSection(a) \o GroupedSection(a) \o LocalSection(a)
    \o PreviousSection(a) \o FollowUpSection(a)

---------------------------------------------------------------------------
(* The builder run on a wide range of arguments.                           *)

MaxLocal == 2

Metadata(path, page, snippet) ==
    PyDict([metadata |-> PyDict([file_path |-> path, page |-> page, snippet |-> snippet])])

LocalDocs ==
    { Metadata(PyStr(<<"a.pdf">>), PyInt(3), PyStr(<<"hello">>)),
      Metadata(PyStr(<<"a.pdf">>), PyInt(0), PyStr(<<"hello">>)),
      Metadata(PyStr(<<"b.txt">>), Absent, PyStr(<<"hello">>)),
      Metadata(Absent, PyInt(3), Absent),
      PyDict([metadata |-> Absent]) }

LocalInputs == {PyNone} \cup {PyList(l) : l \in UNION {[1..n -> LocalDocs] : n \in 0..MaxLocal}}

WebInputs ==
    { PyNone, PyList(<<>>),
      PyList(<<PyDict([url |-> PyStr(<<"http://w">>), snippet |-> PyStr(<<"snip">>)])>>) }

SampleGroupedItem ==
    PyDict([url |-> PyStr(<<"http://w">>), file_path |-> PyStr(<<"w.html">>),
            content_type |-> Absent])
GroupedInputs ==
    { PyNone, PyMap(<<>>),
      PyMap(<<[key |-> PyStr(<<"w">>), value |-> PyList(<<SampleGroupedItem>>)]>>) }

TextInputs == {PyNone, PyStr(<<>>), PyStr(<<"earlier", " ", "**", "turn", "**">>)}

BuildInputs ==
    { CallArgs(PyStr(<<"q1">>), w, l, PyStr(<<"answer">>), Config(Absent), g, p, f) :
        w \in WebInputs, l \in LocalInputs, g \in GroupedInputs,
        p \in TextInputs, f \in TextInputs }

BuildInit ==
    /\ bargs \in BuildInputs
    /\ bdocs = NoDocs
    \* the renderer harness and the writer are not running
    /\ report_data = <<>> /\ rpc = "done" /\ idx = 1 /\ md_file = <<>>
    /\ md_raised = FALSE /\ first_h1_title = PyNone /\ first_h1_skipped = FALSE
    /\ adoc_lines = <<>> /\ adoc_file = NoFile /\ adoc_raised = FALSE
    /\ fs = <<>> /\ dirs = {} /\ pc = "idle" /\ step = 0 /\ args = NoArgs
    /\ handles = {} /\ retval = <<>> /\ calls = 0 /\ printed = <<>>

\* lines 108-180 of aggregate_results
Build ==
    /\ ~bdocs.built
    /\ bdocs' = [built |-> TRUE, final |-> FinalReportData(bargs),
                 full |-> AggregatorReportData(bargs)]
    /\ UNCHANGED <<bargs, rvars, avars>>

BuildNext == Build

---------------------------------------------------------------------------
(* aggregate_results called repeatedly against one file system; directory  *)
(* creation and every open and write may fail.                             *)

MaxCalls == 2

\* output_dir = os.path.join(base_dir, query_id)
OutputDir(a) ==
    <<Get(a.config, "results_base_dir", PyStr(<<"results">>)).s, a.query_id.s>>

\* the four paths, in the order they are written
ReportPath(a, n) ==
    OutputDir(a) \o
    << CASE n = 1 -> <<"final_report.md">>
         [] n = 2 -> <<"final_report.adoc">>
         [] n = 3 -> a.query_id.s \o <<"_output.md">>
         [] OTHER -> a.query_id.s \o <<"_output.adoc">> >>

\* what the n-th writer call renders
ReportRender(a, n) ==
    CASE n = 1 -> MdRender(FinalReportData(a))
      [] n = 2 -> AdocRender(FinalReportData(a))
      [] n = 3 -> MdRender(AggregatorReportData(a))
      [] OTHER -> AdocRender(AggregatorReportData(a))

IsAdocStep(n) == n \in {2, 4}

\* the file system with `path` holding `text`
WithFile(files, path, text) ==
    [p \in DOMAIN files \cup {path} |-> IF p = path THEN text ELSE files[p]]

\* Truncated for a file opened without truncation (mode "r+"): what it held stays
NotTruncated(files, path) ==
    WithFile(files, path, IF path \in DOMAIN files THEN files[path] ELSE <<>>)

\* open(file_path, "w"): the file exists afterwards and is empty
Truncated(files, path) == WithFile(files, path, <<>>)

\* writing `text` from position 0 into a file holding `old`
Written(old, text) == text \o SubSeq(old, Len(text) + 1, Len(old))

WriterInputs ==
    { CallArgs(PyStr(<<q>>), PyNone, PyNone, PyStr(<<"answer">>), c, PyNone, p, PyNone) :
        q \in {"q1"}, c \in {Config(Absent)},
        p \in {PyNone, PyStr(<<"earlier", " ", "turn">>)} }
    \cup { CallArgs(PyStr(<<"q2">>), PyNone, PyNone, PyStr(<<"answer">>),
                    Config(Absent), PyNone, PyNone, PyNone),
           CallArgs(PyStr(<<"q1">>), PyNone, PyNone, PyStr(<<"answer">>),
                    Config(PyStr(<<"out">>)), PyNone, PyNone, PyNone) }

Init ==
    /\ fs = <<>>
    /\ dirs = {}
    /\ pc = "idle"
    /\ step = 0
    /\ args = NoArgs
    /\ handles = {}
    /\ retval = <<>>
    /\ calls = 0
    /\ printed = <<>>
    \* the renderer harness and the builder harness are not running
    /\ report_data = <<>> /\ rpc = "done" /\ idx = 1 /\ md_file = <<>>
    /\ md_raised = FALSE /\ first_h1_title = PyNone /\ first_h1_skipped = FALSE
    /\ adoc_lines = <<>> /\ adoc_file = NoFile /\ adoc_raised = FALSE
    /\ bargs = NoArgs /\ bdocs = NoDocs

\* the caller enters aggregate_results
Call(a) ==
    /\ pc \in {"idle", "returned", "raised"}
    /\ calls < MaxCalls
    /\ args' = a
    /\ pc' = "mkdir"
    /\ step' = 0
    /\ retval' = <<>>
    /\ calls' = calls + 1
    /\ UNCHANGED <<fs, dirs, handles, printed>>
    /\ UNCHANGED <<rvars, bvars>>

\* os.makedirs(output_dir, exist_ok=True) succeeds, also on an existing directory
Makedirs ==
    /\ pc = "mkdir"
    /\ dirs' = dirs \cup {SubSeq(OutputDir(args), 1, 1), OutputDir(args)}
    /\ pc' = "open"
    /\ step' = 1
    /\ UNCHANGED <<fs, args, handles, retval, calls, printed>>
    /\ UNCHANGED <<rvars, bvars>>

\* os.makedirs raises OSError
MakedirsFails ==
    /\ pc = "mkdir"
    /\ pc' = "raised"
    /\ UNCHANGED <<fs, dirs, step, args, handles, retval, calls, printed>>
    /\ UNCHANGED <<rvars, bvars>>

\* open(file_path, "w") succeeds; _write_asciidoc_report renders before it opens,
\* and raises without opening when the rendering raises
Open ==
    /\ pc = "open"
    /\ OutputDir(args) \in dirs
    /\ LET raises == IsAdocStep(step) /\ ReportRender(args, step).exc
       IN  /\ fs' = IF raises THEN fs ELSE Truncated(fs, ReportPath(args, step))
           /\ handles' = IF raises THEN handles ELSE handles \cup {ReportPath(args, step)}
           /\ pc' = IF raises THEN "raised" ELSE "write"
    /\ UNCHANGED <<dirs, step, args, retval, calls, printed>>
    /\ UNCHANGED <<rvars, bvars>>

\* open raises OSError
OpenFails ==
    /\ pc = "open"
    /\ pc' = "raised"
    /\ UNCHANGED <<fs, dirs, step, args, handles, retval, calls, printed>>
    /\ UNCHANGED <<rvars, bvars>>

\* the writes of the with block succeed and the block closes the file; a rendering
\* exception inside the Markdown with block leaves what was written before it
Write ==
    /\ pc = "write"
    /\ LET path == ReportPath(args, step)
           r == ReportRender(args, step)
       IN  /\ fs' = WithFile(fs, path, Written(fs[path], r.w))
           /\ handles' = handles \ {path}
           /\ pc' = IF r.exc THEN "raised" ELSE IF step = 4 THEN "return" ELSE "open"
           /\ step' = IF r.exc \/ step = 4 THEN step ELSE step + 1
    /\ UNCHANGED <<dirs, args, retval, calls, printed>>
    /\ UNCHANGED <<rvars, bvars>>

\* WriteFails without the with block: the failing write leaves the file open
WriteFailsLeavesOpen ==
    /\ pc = "write"
    /\ LET path == ReportPath(args, step)
           r == ReportRender(args, step)
       IN  \E n \in 0..Len(r.w) :
             fs' = WithFile(fs, path, Written(fs[path], SubSeq(r.w, 1, n)))
    /\ pc' = "raised"
    /\ UNCHANGED <<dirs, step, args, handles, retval, calls, printed>>
    /\ UNCHANGED <<rvars, bvars>>

\* a write (or the flush on close) raises OSError: some prefix reached the file,
\* and the with block still closes it
WriteFails ==
    /\ pc = "write"
    /\ LET path == ReportPath(args, step)
           r == ReportRender(args, step)
       IN  \E n \in 0..Len(r.w) :
             fs' = WithFile(fs, path, Written(fs[path], SubSeq(r.w, 1, n)))
    /\ handles' = handles \ {ReportPath(args, step)}
    /\ pc' = "raised"
    /\ UNCHANGED <<dirs, step, args, retval, calls, printed>>
    /\ UNCHANGED <<rvars, bvars>>

\* return aggregator_md_path; the caller prints the path it got
Return ==
    /\ pc = "return"
    /\ retval' = ReportPath(args, 3)
    /\ printed' = Append(printed, ReportPath(args, 3))
    /\ pc' = "returned"
    /\ UNCHANGED <<fs, dirs, step, args, handles, calls>>
    /\ UNCHANGED <<rvars, bvars>>

Next ==
    \/ \E a \in WriterInputs : Call(a)
    \/ Makedirs \/ MakedirsFails
    \/ Open \/ OpenFails
    \/ Write \/ WriteFails
    \/ Return

---------------------------------------------------------------------------
(* Specifications *)

Spec == Init /\ [][Next]_vars
RenderSpec == RenderInit /\ [][RenderNext]_vars
BuildSpec == BuildInit /\ [][BuildNext]_vars

---------------------------------------------------------------------------
(* Properties of the renderers (RenderSpec) *)

\* what a step appended to a sequence that only grows
Added(before, after) == SubSeq(after, Len(before) + 1, Len(after))

Titled(section) == section.title.s # <<>>
IsEmptyContent(content) == content \in {Absent, PyNone, PyStr(<<>>)}
IsTextContent(content) == content.tag = "str" /\ content.s # <<>>
IsNestedContent(content) ==
    /\ content.tag = "list"
    /\ content.l # <<>>
    /\ \A i \in 1..Len(content.l) : content.l[i].tag = "dict"
IsUnexpectedContent(content) == content.tag \notin {"absent", "none", "str", "list", "dict"}

\* the document title section of the specification: the first section with
\* level 1 and a non-empty title (0: there is none)
DocTitleIndex(doc) ==
    LET S == {i \in 1..Len(doc) : doc[i].level = PyInt(1) /\ Titled(doc[i])}
    IN  IF S = {} THEN 0 ELSE CHOOSE i \in S : \A j \in S : i <= j

IsTitleLine(piece) == piece.k = "heading" /\ piece.marks = 1

\* a step of the Markdown loop / of the AsciiDoc loop on section idx
MdStep == rpc = "md" /\ idx <= Len(report_data)
AdocStep == rpc = "adoc" /\ idx <= Len(report_data)
\* the AsciiDoc step that skipped the heading of its section as the document title
ElidingStep == AdocStep /\ ~first_h1_skipped /\ first_h1_skipped'

\* C1: the AsciiDoc output starts with the title line "= <title>" of the first
\* section that has level 1 and a non-empty title, and has no title line when the
\* document has no such section.
C1_TitleIsFirstTitledH1 ==
    (rpc = "done" /\ adoc_file.exists) =>
        LET t == DocTitleIndex(report_data)
            text == adoc_file.text
        IN  IF t # 0
            THEN text # <<>> /\ text[1] = AdocHeading(1, report_data[t].title)
            ELSE \A i \in 1..Len(text) : ~IsTitleLine(text[i])

\* C2: when the first titled level-1 section has title T, T is the title line, once
\* and at the top; that section alone appends no heading, its content is appended at
\* its own position, and every other titled section appends its body heading.
C2_TitleOnceAtTop ==
    (rpc = "done" /\ adoc_file.exists /\ DocTitleIndex(report_data) # 0) =>
        LET text == adoc_file.text
        IN  /\ text # <<>>
            /\ text[1] = AdocHeading(1, report_data[DocTitleIndex(report_data)].title)
            /\ \A i \in 2..Len(text) : ~IsTitleLine(text[i])
C2_TitleSectionElided ==
    (AdocStep /\ ~adoc_raised' /\ DocTitleIndex(report_data) # 0) =>
        LET sec == report_data[idx]
            added == Added(adoc_lines, adoc_lines')
        IN  /\ SubSeq(adoc_lines', 1, Len(adoc_lines)) = adoc_lines
            /\ IF idx = DocTitleIndex(report_data)
               THEN /\ \A i \in 1..Len(added) : added[i].k # "heading"
                    /\ IsTextContent(sec.content) => added = <<AdocText(sec.content.s)>>
               ELSE Titled(sec) =>
                      /\ added # <<>>
                      /\ added[1] = AdocHeading(sec.level.n + 1, sec.title)
C2_TitleOnceAndElided == []C2_TitleOnceAtTop /\ [][C2_TitleSectionElided]_vars

\* C3: a section with Nested content is rendered by both renderers as its own
\* heading followed by each sub-section rendered by the per-section algorithm (its
\* heading, then its content), in order, with no bullet per sub-section.
C3_MdNested ==
    (MdStep /\ IsNestedContent(report_data[idx].content)) =>
        LET sec == report_data[idx]
        IN  Added(md_file, md_file') =
              MdHead(sec) \o
              Flatten([j \in 1..Len(sec.content.l) |-> MdSection(sec.content.l[j].d).w])
C3_AdocNested ==
    (AdocStep /\ IsNestedContent(report_data[idx].content)) =>
        LET sec == report_data[idx]
        IN  Added(adoc_lines, adoc_lines') =
              AdocHead(sec, first_h1_title, first_h1_skipped) \o
              Flatten([j \in 1..Len(sec.content.l) |->
                         AdocSection(sec.content.l[j].d, first_h1_title,
                                     first_h1_skipped').w])
C3_NestedRenderedInPlace == [][C3_MdNested /\ C3_AdocNested]_vars

\* C4: a section with Empty content gets the placeholder line exactly when it has a
\* title; in AsciiDoc the one section elided as the document title gets none, and
\* every other titled section gets it after its heading.
C4_MdPlaceholder ==
    (MdStep /\ IsEmptyContent(report_data[idx].content)) =>
        LET sec == report_data[idx]
        IN  Added(md_file, md_file') =
              IF Titled(sec) THEN <<MdHeading(sec.level.n, sec.title), MdNoContent>>
              ELSE <<>>
C4_AdocPlaceholder ==
    (AdocStep /\ IsEmptyContent(report_data[idx].content)) =>
        LET sec == report_data[idx]
            added == Added(adoc_lines, adoc_lines')
        IN  IF ElidingStep
            THEN \A i \in 1..Len(added) : added[i] # AdocNoContent
            ELSE added = IF Titled(sec)
                         THEN <<AdocHeading(sec.level.n + 1, sec.title), AdocNoContent>>
                         ELSE <<>>
C4_PlaceholderPolicy == [][C4_MdPlaceholder /\ C4_AdocPlaceholder]_vars

\* C5: content that is neither a string, a list nor a dict never makes a renderer
\* raise, and is rendered as the placeholder line of a section without content.
C5_MdUnexpected ==
    (MdStep /\ IsUnexpectedContent(report_data[idx].content)) =>
        LET sec == report_data[idx]
        IN  /\ ~md_raised'
            /\ Added(md_file, md_file') =
                 IF Titled(sec) THEN <<MdHeading(sec.level.n, sec.title), MdNoContent>>
                 ELSE <<>>
C5_AdocUnexpected ==
    (AdocStep /\ IsUnexpectedContent(report_data[idx].content)) =>
        LET sec == report_data[idx]
        IN  /\ ~adoc_raised'
            /\ (Titled(sec) /\ ~ElidingStep) =>
                 Added(adoc_lines, adoc_lines') =
                   <<AdocHeading(sec.level.n + 1, sec.title), AdocNoContent>>
C5_UnexpectedContentIsPlaceholder == [][C5_MdUnexpected /\ C5_AdocUnexpected]_vars

\* C9: every titled section other than the elided one gets an AsciiDoc heading of
\* level + 1 markers, one more than the level markers of its Markdown heading; a
\* heading of a single marker occurs in the AsciiDoc output only as the title line.
C9_MdDepth ==
    (MdStep /\ Titled(report_data[idx])) =>
        LET sec == report_data[idx]
            added == Added(md_file, md_file')
        IN  /\ added # <<>>
            /\ added[1].k = "heading"
            /\ added[1].title = sec.title
            /\ added[1].marks = sec.level.n
C9_AdocDepth ==
    (AdocStep /\ Titled(report_data[idx]) /\ ~ElidingStep) =>
        LET sec == report_data[idx]
            added == Added(adoc_lines, adoc_lines')
        IN  /\ added # <<>>
            /\ added[1].k = "heading"
            /\ added[1].title = sec.title
            /\ added[1].marks = sec.level.n + 1
            /\ \A i \in 2..Len(added) : added[i].k # "heading"
C9_SingleMarkerIsTitle ==
    /\ \A i \in 1..Len(adoc_lines) :
         IsTitleLine(adoc_lines[i]) =>
            i = 1 /\ adoc_lines[1] = AdocHeading(1, first_h1_title)
    /\ \A i \in 2..Len(adoc_file.text) : ~IsTitleLine(adoc_file.text[i])
---------------------------------------------------------------------------
(* Properties of the builder (BuildSpec) *)

\* the (level, title) of every section, in order
Outline(doc) == [i \in 1..Len(doc) |-> <<doc[i].level.n, doc[i].title.s>>]

\* the outline the full document must have, given which optional sections are due
ExpectedOutline(a, grouped, previous, followup) ==
    << <<1, <<"Aggregated Results for Query ID:", " ">> \o a.query_id.s>>,
       <<2, <<"Enhanced Query">>>>,
       <<1, <<"Final Aggregated Answer (RAG)">>>>,
       <<2, <<"Web Search Results">>>> >>
    \o (IF grouped THEN << <<2, <<"Grouped Web Results by Domain">>>> >> ELSE <<>>)
    \o << <<2, <<"Local Retrieval Results">>>> >>
    \o (IF previous THEN << <<2, <<"Previous Results Integrated">>>> >> ELSE <<>>)
    \o (IF followup THEN << <<2, <<"Follow-Up Conversation">>>> >> ELSE <<>>)

Provided(v) == v # PyNone
NonEmpty(v) == v \notin {PyNone, PyStr(<<>>), PyList(<<>>), PyMap(<<>>)}

\* C6 as stated: the full document is header, Enhanced Query, Final Aggregated
\* Answer, Web Search Results, Grouped Web Results by Domain iff the grouped results
\* are provided and non-empty, Local Retrieval Results, Previous Results Integrated
\* iff previous results are provided, Follow-Up Conversation iff a follow-up
\* conversation is provided; the header section has no content.
C6_OptionalSectionsIffProvided ==
    bdocs.built =>
        /\ Outline(bdocs.full) =
             ExpectedOutline(bargs, NonEmpty(bargs.grouped_web_results),
                             Provided(bargs.previous_results),
                             Provided(bargs.follow_up_conversation))
        /\ bdocs.full[1].content = Absent

\* C6 as amended: the same order, with Previous Results Integrated and Follow-Up
\* Conversation present iff their text is provided and non-empty.
C6_OptionalSectionsIffNonEmpty ==
    bdocs.built =>
        /\ Outline(bdocs.full) =
             ExpectedOutline(bargs, NonEmpty(bargs.grouped_web_results),
                             NonEmpty(bargs.previous_results),
                             NonEmpty(bargs.follow_up_conversation))
        /\ bdocs.full[1].content = Absent

\* C6 witness: an empty previous-results text next to a real follow-up conversation
\* and grouped results: seven sections, none of them Previous Results Integrated
C6_Witness ==
    /\ bdocs.built
    /\ bargs.previous_results = PyStr(<<>>)
    /\ NonEmpty(bargs.follow_up_conversation)
    /\ NonEmpty(bargs.grouped_web_results)
    /\ Len(bdocs.full) = 7
    /\ bdocs.full[7].title = PyStr(<<"Follow-Up Conversation">>)

\* the item the specification asks for one local result
ExpectedLocalItem(doc) ==
    LET meta == IF doc.d.metadata = Absent THEN NoMetadata ELSE doc.d.metadata.d
        path == IF meta.file_path = Absent THEN PyStr(<<>>) ELSE meta.file_path
        snippet == IF meta.snippet = Absent THEN PyStr(<<>>) ELSE meta.snippet
    IN  IF meta.page = Absent
        THEN PyDict([primary |-> path, secondary |-> snippet, tertiary |-> Absent])
        ELSE PyDict([primary |-> path, secondary |-> meta.page, tertiary |-> snippet])

LocalSectionIndex(doc) ==
    CHOOSE i \in 1..Len(doc) : doc[i].title = PyStr(<<"Local Retrieval Results">>)

\* C8: the Local Retrieval Results section holds one item per local result, in input
\* order, with primary the file path, and (page, snippet) as (secondary, tertiary)
\* when the metadata has a page and the snippet as secondary, without tertiary, when
\* it has none; with no local results its content is "_No local results found_".
C8_LocalItems ==
    bdocs.built =>
        LET content == bdocs.full[LocalSectionIndex(bdocs.full)].content
            local == bargs.local_results
        IN  /\ Cardinality({i \in 1..Len(bdocs.full) :
                              bdocs.full[i].title = PyStr(<<"Local Retrieval Results">>)}) = 1
            /\ IF NonEmpty(local)
               THEN /\ content.tag = "dict"
                    /\ content.d.items.tag = "list"
                    /\ Len(content.d.items.l) = Len(local.l)
                    /\ \A i \in 1..Len(local.l) :
                         content.d.items.l[i] = ExpectedLocalItem(local.l[i])
               ELSE content = PyStr(<<"_No local results found_">>)

\* C8 witness: two local results, the first with a page, the second without
C8_Witness ==
    /\ bdocs.built
    /\ bargs.local_results.tag = "list"
    /\ Len(bargs.local_results.l) = 2
    /\ bargs.local_results.l[1] = Metadata(PyStr(<<"a.pdf">>), PyInt(3), PyStr(<<"hello">>))
    /\ bargs.local_results.l[2] = Metadata(PyStr(<<"b.txt">>), Absent, PyStr(<<"hello">>))
    /\ bdocs.full[LocalSectionIndex(bdocs.full)].content.d.items.l =
         << PyDict([primary |-> PyStr(<<"a.pdf">>), secondary |-> PyInt(3),
                    tertiary |-> PyStr(<<"hello">>)]),
            PyDict([primary |-> PyStr(<<"b.txt">>), secondary |-> PyStr(<<"hello">>),
                    tertiary |-> Absent]) >>

---------------------------------------------------------------------------
(* Properties of aggregate_results against the file system (Spec) *)

\* the four files of the specification for a base directory and a query identifier
ExpectedFiles(base, q) ==
    { <<base, q, <<"final_report.md">>>>, <<base, q, <<"final_report.adoc">>>>,
      <<base, q, q \o <<"_output.md">>>>, <<base, q, q \o <<"_output.adoc">>>> }

BaseDir(a) ==
    IF a.config.results_base_dir = Absent THEN <<"results">>
    ELSE a.config.results_base_dir.s

\* C7: after a completed call the directory <base>/Q holds exactly final_report.md,
\* final_report.adoc, Q_output.md and Q_output.adoc, each holding the rendering of
\* the documents of that call and nothing of an earlier call; the call returned
\* <base>/Q/Q_output.md, as did every call before it for its own Q; and the
\* directory is there whenever a file is opened, whether or not it existed before.
C7_LatestCallOnDisk ==
    /\ pc = "returned" =>
         LET base == BaseDir(args)
             q == args.query_id.s
         IN  /\ {p \in DOMAIN fs : p[1] = base /\ p[2] = q} = ExpectedFiles(base, q)
             /\ Cardinality(ExpectedFiles(base, q)) = 4
             /\ fs[<<base, q, <<"final_report.md">>>>] = MdRender(FinalReportData(args)).w
             /\ fs[<<base, q, <<"final_report.adoc">>>>] = AdocRender(FinalReportData(args)).w
             /\ fs[<<base, q, q \o <<"_output.md">>>>] = MdRender(AggregatorReportData(args)).w
             /\ fs[<<base, q, q \o <<"_output.adoc">>>>] =
                  AdocRender(AggregatorReportData(args)).w
             /\ retval = <<base, q, q \o <<"_output.md">>>>
             /\ printed # <<>> /\ printed[Len(printed)] = retval
    /\ \A i \in 1..Len(printed) : printed[i][3] = printed[i][2] \o <<"_output.md">>
    /\ pc \in {"open", "write", "return", "returned"} => <<BaseDir(args), args.query_id.s>> \in dirs

\* C7 witness: two calls with the same query identifier and base directory have
\* completed, the second with the shorter full report
C7_Witness ==
    /\ pc = "returned" /\ calls = 2
    /\ Len(printed) = 2 /\ printed[1] = printed[2]
    /\ args.previous_results = PyNone
    /\ Cardinality(DOMAIN fs) = 4

\* C10: a call that raised returned no path and holds no open file; after it nothing
\* is retried and no further file is written (only a new call follows); a step
\* changes only the file of the current position, and the positions advance in the
\* order final_report.md, final_report.adoc, Q_output.md, Q_output.adoc.
C10_RaisedState ==
    /\ pc = "raised" => (retval = <<>> /\ handles = {})
    /\ pc # "write" => handles = {}
    /\ pc = "write" => handles = {ReportPath(args, step)}
C10_RaisedStep ==
    /\ pc = "raised" =>
         (pc' = "mkdir" /\ calls' = calls + 1 /\ fs' = fs /\ dirs' = dirs /\ handles' = {})
    /\ fs' # fs =>
         /\ pc \in {"open", "write"}
         /\ \A p \in DOMAIN fs : p \in DOMAIN fs'
         /\ \A p \in DOMAIN fs' :
              p # ReportPath(args, step) => (p \in DOMAIN fs /\ fs'[p] = fs[p])
    /\ (step' # step /\ pc # "mkdir") => (step' = step + 1 \/ pc' = "mkdir")
    /\ (pc' = "raised" /\ pc # "raised") => (step' = step /\ retval' = <<>>)
C10_FailurePropagates == []C10_RaisedState /\ [][C10_RaisedStep]_vars

\* C10 witness: the write of final_report.adoc failed: final_report.md is there, the
\* third file was never written, nothing is open
C10_Witness ==
    /\ pc = "raised" /\ step = 2 /\ calls = 1
    /\ ReportPath(args, 1) \in DOMAIN fs
    /\ ReportPath(args, 2) \in DOMAIN fs
    /\ ReportPath(args, 3) \notin DOMAIN fs
    /\ handles = {}

====
